---- MODULE Spec2Model ----
(***************************************************************************)
(* torch/distributions/multivariate_normal.py as a state machine.          *)
(*                                                                         *)
(* A tensor is a record [shape, data]: its shape (a sequence of positive   *)
(* integers) and its elements in row-major order.  Elements are integers;  *)
(* the matrices drawn as inputs are those on which the floating-point      *)
(* Cholesky factorization is exact.  Results whose elements are random     *)
(* (rsample) or transcendental (log_prob, entropy) carry their shape only. *)
(***************************************************************************)
EXTENDS Integers, Sequences, FiniteSets, TLC

VARIABLES
    phase,      \* "new" | "constructed" | "failed"
    args,       \* the arguments __init__ was called with
    self,       \* the instance's attributes
    ret,        \* what the last call returned or raised
    last,       \* the last call: its name and argument
    hit,        \* whether the last call found the derived attribute already cached
    attempts,   \* times the body of the derived lazy property was entered
    computes,   \* times that body ran to completion
    rpc,        \* concurrent readers: where each is in lazy_property.__get__
    rval,       \* concurrent readers: the value each holds
    resolved    \* the last _get_batch_shape call made on its own

vars == <<phase, args, self, ret, last, hit, attempts, computes, rpc, rval, resolved>>

-----------------------------------------------------------------------------
(* Bounds of the model.                                                    *)

MaxDim == 3
MaxAttempts == 3

Dims == 1..MaxDim
MatRanks == 0..3
LocRanks == 1..2
SampleRanks == 0..1

-----------------------------------------------------------------------------
(* Shapes (torch.Size) and Python's slices of them.                        *)

Max(a, b) == IF a >= b THEN a ELSE b

ShapesOfRank(ranks, dims) == UNION {[1..k -> dims] : k \in ranks}

RECURSIVE Numel(_)
Numel(s) == IF s = <<>> THEN 1 ELSE s[1] * Numel(Tail(s))

\* s[:-1]
DropLast(s) == IF Len(s) = 0 THEN <<>> ELSE SubSeq(s, 1, Len(s) - 1)

\* s[:-2]
DropLast2(s) == IF Len(s) <= 2 THEN <<>> ELSE SubSeq(s, 1, Len(s) - 2)

\* s[-1:]
LastOnly(s) == IF Len(s) = 0 THEN <<>> ELSE <<s[Len(s)]>>

-----------------------------------------------------------------------------
(* What a call returns or raises.                                          *)

Ok(shape, data) == [status |-> "ok", shape |-> shape, data |-> data, msg |-> <<>>]

Raise(kind, msg) == [status |-> kind, shape |-> <<>>, data |-> <<>>, msg |-> msg]

NoRet == [status |-> "none", shape |-> <<>>, data |-> <<>>, msg |-> <<>>]

-----------------------------------------------------------------------------
(* torch._C._infer_size: the broadcast of two sizes, aligned at the right. *)
(* At each position the two sizes must be equal or one of them 1.          *)

infer_size(a, b) ==
    LET ndim == Max(Len(a), Len(b))
        sizeA(i) == IF i - (ndim - Len(a)) >= 1 THEN a[i - (ndim - Len(a))] ELSE 1
        sizeB(i) == IF i - (ndim - Len(b)) >= 1 THEN b[i - (ndim - Len(b))] ELSE 1
    IN  IF \A i \in 1..ndim : sizeA(i) = sizeB(i) \/ sizeA(i) = 1 \/ sizeB(i) = 1
        THEN Ok([i \in 1..ndim |-> IF sizeA(i) = 1 THEN sizeB(i) ELSE sizeA(i)], <<>>)
        ELSE Raise("RuntimeError", <<a, b>>)

(* _get_batch_shape(bmat, bvec), on the two shapes.                        *)

_get_batch_shape_keeps_last(bmat, bvec) ==
    LET vec_shape == infer_size(bvec, DropLast(bmat))
    IN  IF vec_shape.status # "ok"
        THEN Raise("ShapeError", <<bvec, bmat>>)
        ELSE Ok(vec_shape.shape, <<>>)

_get_batch_shape_of_matrix_alone(bmat, bvec) ==
    LET vec_shape == infer_size(bvec, DropLast(bmat))
    IN  IF vec_shape.status # "ok"
        THEN Raise("ShapeError", <<bvec, bmat>>)
        ELSE Ok(DropLast2(bmat), <<>>)

_get_batch_shape_message_sliced(bmat, bvec) ==
    LET vec_shape == infer_size(bvec, DropLast(bmat))
    IN  IF vec_shape.status # "ok"
        THEN Raise("ShapeError", <<bvec, DropLast(bmat)>>)
        ELSE Ok(DropLast(vec_shape.shape), <<>>)

_get_batch_shape(bmat, bvec) ==
    LET vec_shape == infer_size(bvec, DropLast(bmat))
    IN  IF vec_shape.status # "ok"
        THEN Raise("ShapeError", <<bvec, bmat>>)
        ELSE Ok(DropLast(vec_shape.shape), <<>>)

-----------------------------------------------------------------------------
(* Tensors.                                                                *)

Tensor(shape, data) == [shape |-> shape, data |-> data]

RECURSIVE SumSeq(_)
SumSeq(s) == IF s = <<>> THEN 0 ELSE s[1] + SumSeq(Tail(s))

RECURSIVE Flatten(_)
Flatten(ss) == IF ss = <<>> THEN <<>> ELSE ss[1] \o Flatten(Tail(ss))

\* The element in row i, column j of a matrix with c columns.
At(m, c, i, j) == m[(i - 1) * c + j]

\* t.view((-1, r, c)): the tensor's elements cut into r x c matrices; the
\* number of elements must be a multiple of r * c.
ViewFits(shape, r, c) == Numel(shape) % (r * c) = 0

ViewItems(t, r, c) ==
    [k \in 1..(Numel(t.shape) \div (r * c)) |->
        SubSeq(t.data, (k - 1) * r * c + 1, k * r * c)]

\* t.expand(target): sizes aligned at the right; each size of t is the
\* target's or 1.
ExpandFits(shape, target) ==
    /\ Len(shape) <= Len(target)
    /\ \A i \in 1..Len(shape) :
           LET j == i + (Len(target) - Len(shape))
           IN  shape[i] = target[j] \/ shape[i] = 1

-----------------------------------------------------------------------------
(* Tensor.potrf(upper=False) of one n x n matrix: the lower Cholesky       *)
(* factor, read off the lower triangle row by row; the upper triangle of   *)
(* the result is zero.  A pivot that is not positive ends it.              *)

ISqrt(d) == CHOOSE r \in 0..d : r * r <= d /\ (r + 1) * (r + 1) > d

RECURSIVE PotrfFill(_, _, _)
PotrfFill(A, n, L) ==
    IF Len(L) = n * n THEN Ok(<<n, n>>, L)
    ELSE LET p == Len(L) + 1
             i == ((p - 1) \div n) + 1
             j == ((p - 1) % n) + 1
             s == SumSeq([k \in 1..(j - 1) |-> At(L, n, i, k) * At(L, n, j, k)])
         IN  IF j > i THEN PotrfFill(A, n, Append(L, 0))
             ELSE IF j = i
                  THEN IF At(A, n, i, i) - s <= 0
                       THEN Raise("NotPositiveDefiniteError", <<>>)
                       ELSE PotrfFill(A, n, Append(L, ISqrt(At(A, n, i, i) - s)))
                  ELSE PotrfFill(A, n, Append(L, (At(A, n, i, j) - s) \div At(L, n, j, j)))

potrf(A, n) == PotrfFill(A, n, <<>>)

\* torch.bmm(M, M.transpose(-1, -2)) for one n x n matrix.
MatMulT(M, n) ==
    [p \in 1..(n * n) |->
        LET i == ((p - 1) \div n) + 1
            j == ((p - 1) % n) + 1
        IN  SumSeq([k \in 1..n |-> At(M, n, i, k) * At(M, n, j, k)])]

(* _batch_potrf_lower(bmat).                                               *)

_batch_potrf_upper(bmat) ==
    LET n == bmat.shape[Len(bmat.shape)]
        Transposed(M) == [p \in 1..(n * n) |->
                            At(M, n, ((p - 1) % n) + 1, ((p - 1) \div n) + 1)]
    IN  IF ~ViewFits(bmat.shape, n, n) THEN Raise("RuntimeError", <<>>)
        ELSE LET items == ViewItems(bmat, n, n)
                 cholesky == [k \in 1..Len(items) |-> potrf(items[k], n)]
             IN  IF \E k \in 1..Len(items) : cholesky[k].status # "ok"
                 THEN Raise("NotPositiveDefiniteError", <<>>)
                 ELSE Ok(bmat.shape,
                         Flatten([k \in 1..Len(items) |-> Transposed(cholesky[k].data)]))

_batch_potrf_lower_keeps_unfactored(bmat) ==
    LET n == bmat.shape[Len(bmat.shape)]
    IN  IF ~ViewFits(bmat.shape, n, n) THEN Raise("RuntimeError", <<>>)
        ELSE LET items == ViewItems(bmat, n, n)
                 cholesky == [k \in 1..Len(items) |-> potrf(items[k], n)]
             IN  Ok(bmat.shape,
                    Flatten([k \in 1..Len(items) |->
                                IF cholesky[k].status = "ok" THEN cholesky[k].data
                                ELSE items[k]]))

_batch_potrf_lower(bmat) ==
    LET n == bmat.shape[Len(bmat.shape)]
    IN  IF ~ViewFits(bmat.shape, n, n) THEN Raise("RuntimeError", <<>>)
        ELSE LET items == ViewItems(bmat, n, n)
                 cholesky == [k \in 1..Len(items) |-> potrf(items[k], n)]
             IN  IF \E k \in 1..Len(items) : cholesky[k].status # "ok"
                 THEN Raise("NotPositiveDefiniteError", <<>>)
                 ELSE Ok(bmat.shape,
                         Flatten([k \in 1..Len(items) |-> cholesky[k].data]))

-----------------------------------------------------------------------------
(* torch.inverse of one r x c matrix raises unless the matrix is square    *)
(* and its determinant is not zero.                                        *)

RECURSIVE Det(_, _)
Det(M, n) ==
    IF n = 0 THEN 1
    ELSE IF n = 1 THEN M[1]
    ELSE LET Minor(col) ==
                 [p \in 1..((n - 1) * (n - 1)) |->
                     LET i == ((p - 1) \div (n - 1)) + 2
                         j0 == ((p - 1) % (n - 1)) + 1
                         j == IF j0 < col THEN j0 ELSE j0 + 1
                     IN  At(M, n, i, j)]
             Sign(col) == IF col % 2 = 1 THEN 1 ELSE -1
         IN  SumSeq([col \in 1..n |-> Sign(col) * At(M, n, 1, col) * Det(Minor(col), n - 1)])

Invertible(M, r, c) == r = c /\ Det(M, r) # 0

-----------------------------------------------------------------------------
(* The batched helpers.  Those whose result is random or transcendental    *)
(* are taken on the shapes of their arguments.                             *)

(* _batch_mv(bmat, bvec): the shape of the product, or the error.          *)

_batch_mv_without_expand(bmat, bvec) ==
    LET batch_shape == _get_batch_shape(bmat, bvec)
    IN  IF batch_shape.status # "ok" THEN batch_shape
        ELSE Ok(DropLast(bmat), <<>>)

_batch_mv(bmat, bvec) ==
    LET n == bvec[Len(bvec)]
        batch_shape == _get_batch_shape(bmat, bvec)
    IN  IF batch_shape.status # "ok" THEN batch_shape
        ELSE IF ~ExpandFits(bmat, batch_shape.shape \o <<n, n>>)
        THEN Raise("RuntimeError", <<>>)
        ELSE IF ~ExpandFits(bvec \o <<1>>, batch_shape.shape \o <<n, 1>>)
        THEN Raise("RuntimeError", <<>>)
        ELSE Ok(batch_shape.shape \o <<n>>, <<>>)

(* _batch_diag(bmat): the shape of the diagonals, one element of the       *)
(* flattened matrix in every bmat.size(-1) + 1.                            *)
_batch_diag(bmat) ==
    LET r == bmat[Len(bmat) - 1]
        c == bmat[Len(bmat)]
    IN  DropLast2(bmat) \o <<(r * c + c) \div (c + 1)>>

(* _batch_mahalanobis(L, x): the shape of the distances, or the error.     *)
_batch_mahalanobis(L, x) ==
    LET r == L.shape[Len(L.shape) - 1]
        c == L.shape[Len(L.shape)]
        flat_L == ViewItems(L, r, c)
        prod == infer_size(x \o <<1>>, L.shape)
    IN  IF \E k \in 1..Len(flat_L) : ~Invertible(flat_L[k], r, c)
        THEN Raise("RuntimeError", <<>>)
        ELSE IF prod.status # "ok" THEN Raise("RuntimeError", <<>>)
        ELSE Ok(DropLast2(prod.shape), <<>>)

-----------------------------------------------------------------------------
(* class MultivariateNormal.  An attribute the instance does not hold is   *)
(* <<>>; one it holds is <<value>>.                                        *)

NoInstance ==
    [loc |-> <<>>, covariance_matrix |-> <<>>, scale_tril |-> <<>>,
     _batch_shape |-> <<>>, _event_shape |-> <<>>]

\* What a method did: the instance after it, what it returned or raised,
\* whether it found the lazy attribute it read in the instance, and whether
\* it entered and completed the body of a lazy property.
Did(obj, r, found, entered, completed) ==
    [self |-> obj, ret |-> r, found |-> found, entered |-> entered,
     completed |-> completed]

(* The branch of __init__ for the one matrix argument given, named name.   *)
init_given(name, matrix, loc) ==
    IF Len(matrix[1].shape) < 2
    THEN Did(NoInstance, Raise("ParameterError", <<>>), FALSE, 0, 0)
    ELSE LET batch_shape == _get_batch_shape(matrix[1].shape, loc)
             set == [NoInstance EXCEPT ![name] = matrix]
         IN  IF batch_shape.status # "ok"
             THEN Did(set, batch_shape, FALSE, 0, 0)
             ELSE Did([set EXCEPT !.loc = <<loc>>,
                                  !._batch_shape = <<batch_shape.shape>>,
                                  !._event_shape = <<LastOnly(loc)>>],
                      Ok(<<>>, <<>>), FALSE, 0, 0)

(* __init__(loc, covariance_matrix, scale_tril); validate_args is left at  *)
(* its default, under which Distribution.__init__ only stores the shapes.  *)

__init___only_rejects_neither(loc, covariance_matrix, scale_tril) ==
    IF covariance_matrix = <<>> /\ scale_tril = <<>>
    THEN Did(NoInstance, Raise("ParameterError", <<>>), FALSE, 0, 0)
    ELSE IF scale_tril = <<>>
    THEN init_given("covariance_matrix", covariance_matrix, loc)
    ELSE init_given("scale_tril", scale_tril, loc)

__init__(loc, covariance_matrix, scale_tril) ==
    IF (covariance_matrix = <<>>) = (scale_tril = <<>>)
    THEN Did(NoInstance, Raise("ParameterError", <<>>), FALSE, 0, 0)
    ELSE IF scale_tril = <<>>
    THEN init_given("covariance_matrix", covariance_matrix, loc)
    ELSE init_given("scale_tril", scale_tril, loc)

\* The method scale_tril wraps.
scale_tril_wrapped(obj) == _batch_potrf_lower(obj.covariance_matrix[1])

\* The method covariance_matrix wraps.
covariance_matrix_wrapped(obj) ==
    LET n == obj._event_shape[1][1]
        L == obj.scale_tril[1]
    IN  IF ~ViewFits(L.shape, n, n) THEN Raise("RuntimeError", <<>>)
        ELSE LET flat_scale_tril == ViewItems(L, n, n)
             IN  Ok(L.shape,
                    Flatten([k \in 1..Len(flat_scale_tril) |->
                                MatMulT(flat_scale_tril[k], n)]))

\* The method the lazy property called name wraps.
Wrapped(name, obj) ==
    IF name = "scale_tril" THEN scale_tril_wrapped(obj) ELSE covariance_matrix_wrapped(obj)

(* lazy_property: reading the attribute returns the instance's own value   *)
(* when it holds one; otherwise __get__ runs the wrapped method, stores    *)
(* its value in the instance with setattr and returns it.  What the        *)
(* wrapped method raises propagates and nothing is stored.                 *)
lazy_property(obj, name) ==
    IF obj[name] # <<>>
    THEN Did(obj, Ok(obj[name][1].shape, obj[name][1].data), TRUE, 0, 0)
    ELSE LET value == Wrapped(name, obj)
         IN  IF value.status # "ok" THEN Did(obj, value, FALSE, 1, 0)
             ELSE Did([obj EXCEPT ![name] = <<Tensor(value.shape, value.data)>>],
                      value, FALSE, 1, 1)

(* The lazy properties scale_tril and covariance_matrix.                   *)

scale_tril_never_stored(obj) ==
    IF obj.scale_tril # <<>>
    THEN Did(obj, Ok(obj.scale_tril[1].shape, obj.scale_tril[1].data), TRUE, 0, 0)
    ELSE LET value == scale_tril_wrapped(obj)
         IN  Did(obj, value, FALSE, 1, IF value.status = "ok" THEN 1 ELSE 0)

scale_tril(obj) == lazy_property(obj, "scale_tril")

covariance_matrix(obj) == lazy_property(obj, "covariance_matrix")

(* rsample(sample_shape): eps has the shape _extended_shape gives,         *)
(* sample_shape + batch_shape + event_shape.                               *)
rsample(obj, sample_shape) ==
    LET shape == sample_shape \o obj._batch_shape[1] \o obj._event_shape[1]
        read == scale_tril(obj)
    IN  IF read.ret.status # "ok" THEN read
        ELSE LET mv == _batch_mv(read.ret.shape, shape)
             IN  IF mv.status # "ok" THEN [read EXCEPT !.ret = mv]
                 ELSE LET sum == infer_size(obj.loc[1], mv.shape)
                      IN  [read EXCEPT !.ret =
                              IF sum.status = "ok" THEN Ok(sum.shape, <<>>)
                              ELSE Raise("RuntimeError", <<>>)]

(* log_prob(value), with _validate_args off.                               *)
log_prob(obj, value) ==
    LET diff == infer_size(value, obj.loc[1])
    IN  IF diff.status # "ok"
        THEN Did(obj, Raise("RuntimeError", <<>>), FALSE, 0, 0)
        ELSE LET read == scale_tril(obj)
             IN  IF read.ret.status # "ok" THEN read
                 ELSE LET L == Tensor(read.ret.shape, read.ret.data)
                          M == _batch_mahalanobis(L, diff.shape)
                          log_det == DropLast(_batch_diag(L.shape))
                      IN  IF M.status # "ok" THEN [read EXCEPT !.ret = M]
                          ELSE LET out == infer_size(M.shape, log_det)
                               IN  [read EXCEPT !.ret =
                                       IF out.status = "ok" THEN Ok(out.shape, <<>>)
                                       ELSE Raise("RuntimeError", <<>>)]

(* entropy().                                                              *)
entropy(obj) ==
    LET read == scale_tril(obj)
    IN  IF read.ret.status # "ok" THEN read
        ELSE LET log_det == DropLast(_batch_diag(read.ret.shape))
             IN  IF Len(obj._batch_shape[1]) = 0
                 THEN [read EXCEPT !.ret = Ok(log_det, <<>>)]
                 ELSE IF ExpandFits(log_det, obj._batch_shape[1])
                 THEN [read EXCEPT !.ret = Ok(obj._batch_shape[1], <<>>)]
                 ELSE [read EXCEPT !.ret = Raise("RuntimeError", <<>>)]

-----------------------------------------------------------------------------
(* The arguments the model draws.  loc is given by its shape and has at    *)
(* least one dimension.  A matrix argument is either the identity pattern  *)
(* of any shape, or takes its elements from a small range on matrices of   *)
(* the sizes in ValueDims: lower-triangular factors with a positive        *)
(* diagonal, the covariances they factor, and symmetric matrices that are  *)
(* not positive-definite.                                                  *)

ValueDims == {1, 2}

LocShapes == ShapesOfRank(LocRanks, Dims)

SampleShapes == ShapesOfRank(SampleRanks, Dims)

Eye(shape) ==
    Tensor(shape,
           [p \in 1..Numel(shape) |->
               IF Len(shape) < 2 THEN 1
               ELSE LET r == shape[Len(shape) - 1]
                        c == shape[Len(shape)]
                        q == (p - 1) % (r * c)
                    IN  IF q \div c = q % c THEN 1 ELSE 0])

EyeMatrices == {Eye(s) : s \in ShapesOfRank(MatRanks, Dims)}

TrilItems(n) ==
    {M \in [1..(n * n) -> 0..2] :
        \A i, j \in 1..n :
            /\ j > i => At(M, n, i, j) = 0
            /\ j = i => At(M, n, i, j) \in {1, 2}
            /\ j < i => At(M, n, i, j) \in {0, 1}}

PositiveDefiniteItems(n) == {MatMulT(L, n) : L \in TrilItems(n)}

NotPositiveDefiniteItems(n) ==
    {[A EXCEPT ![(k - 1) * n + k] = 0] : A \in PositiveDefiniteItems(n), k \in 1..n}

CovarianceItems(n) == PositiveDefiniteItems(n) \cup NotPositiveDefiniteItems(n)

\* A batch of two has one matrix of Anchors(items, n) and one of items.
Anchors(items, n) ==
    IF n = 1 THEN items
    ELSE {M \in items : M = <<1, 0, 1, 1>> \/ M = MatMulT(<<1, 0, 1, 1>>, 2)}

ValueTensors(Items(_)) ==
    UNION {{Tensor(<<n, n>>, M) : M \in Items(n)}
           \cup {Tensor(<<2, n, n>>, A \o B) : A \in Anchors(Items(n), n), B \in Items(n)}
           \cup {Tensor(<<2, n, n>>, A \o B) : A \in Items(n), B \in Anchors(Items(n), n)}
           : n \in ValueDims}

\* Both given: the second from a few small shapes.
SecondArgs == {Eye(s) : s \in ShapesOfRank(0..2, {1, 2})}

\* Matrices with drawn elements go with a one-dimensional loc; a loc of
\* any shape goes with the identity patterns.
CtorArgs ==
    {<<l, <<c>>, <<>>>> : l \in LocShapes, c \in EyeMatrices}
    \cup {<<l, <<>>, <<t>>>> : l \in LocShapes, t \in EyeMatrices}
    \cup {<<l, <<c>>, <<>>>> : l \in ShapesOfRank({1}, Dims),
                              c \in ValueTensors(CovarianceItems)}
    \cup {<<l, <<>>, <<t>>>> : l \in ShapesOfRank({1}, Dims),
                              t \in ValueTensors(TrilItems)}
    \cup {<<l, <<c>>, <<t>>>> : l \in LocShapes, c \in EyeMatrices, t \in SecondArgs}
    \cup {<<l, <<>>, <<>>>> : l \in LocShapes}

\* Shapes _get_batch_shape is called with on its own: a matrix has at
\* least two dimensions, a vector at least one.
ResolveMatrices ==
    ShapesOfRank(2..3, Dims) \cup {<<5, 3, 3>>, <<2, 1, 3, 3>>, <<4, 3, 3>>}

ResolveVectors ==
    ShapesOfRank(1..2, Dims) \cup {<<4, 3>>, <<5, 3>>}

Readers == {1, 2}

-----------------------------------------------------------------------------
(* The state machine.                                                      *)

NoCall == [op |-> "none", arg |-> <<>>]

Idle == [pc |-> "idle", name |-> "none"]

NoResolve == [matrix |-> <<>>, vector |-> <<>>, ret |-> NoRet]

Init ==
    /\ phase = "new"
    /\ args = [loc |-> <<>>, covariance_matrix |-> <<>>, scale_tril |-> <<>>]
    /\ self = NoInstance
    /\ ret = NoRet
    /\ last = NoCall
    /\ hit = FALSE
    /\ attempts = 0
    /\ computes = 0
    /\ rpc = [r \in Readers |-> Idle]
    /\ rval = [r \in Readers |-> NoRet]
    /\ resolved = NoResolve

\* The attribute the constructor was not given.
Derived == IF args.scale_tril = <<>> THEN "scale_tril" ELSE "covariance_matrix"

Supplied == IF args.scale_tril = <<>> THEN "covariance_matrix" ELSE "scale_tril"

\* MultivariateNormal(loc, covariance_matrix, scale_tril)
Build(a) ==
    /\ LET did == __init__(a[1], a[2], a[3])
       IN  /\ phase' = IF did.ret.status = "ok" THEN "constructed" ELSE "failed"
           /\ self' = did.self
           /\ ret' = did.ret
    /\ args' = [loc |-> a[1], covariance_matrix |-> a[2], scale_tril |-> a[3]]
    /\ last' = [op |-> "__init__", arg |-> <<>>]
    /\ UNCHANGED <<hit, attempts, computes, rpc, rval, resolved>>

Construct ==
    /\ phase = "new"
    /\ \E a \in CtorArgs : Build(a)

\* A call on the constructed instance, by a single caller.
Call(op, arg, did, name) ==
    /\ phase = "constructed"
    /\ attempts + did.entered <= MaxAttempts
    /\ self' = did.self
    /\ ret' = did.ret
    /\ last' = [op |-> op, arg |-> arg]
    /\ hit' = (did.found /\ name = Derived)
    /\ attempts' = attempts + did.entered
    /\ computes' = computes + did.completed
    /\ UNCHANGED <<phase, args, rpc, rval, resolved>>

GetScaleTril == Call("scale_tril", <<>>, scale_tril(self), "scale_tril")

GetCovarianceMatrix ==
    Call("covariance_matrix", <<>>, covariance_matrix(self), "covariance_matrix")

Rsample ==
    /\ phase = "constructed"
    /\ \E sample_shape \in SampleShapes :
           Call("rsample", sample_shape, rsample(self, sample_shape), "scale_tril")

\* value: the shape of one sample of the instance, or any one-dimensional shape.
LogProb ==
    /\ phase = "constructed"
    /\ \E value \in {self._batch_shape[1] \o self._event_shape[1]}
                     \cup ShapesOfRank({1}, Dims) :
           Call("log_prob", value, log_prob(self, value), "scale_tril")

Entropy == Call("entropy", <<>>, entropy(self), "scale_tril")

Next ==
    \/ Construct
    \/ GetScaleTril
    \/ GetCovarianceMatrix
    \/ Rsample
    \/ LogProb
    \/ Entropy

Spec == Init /\ [][Next]_vars

-----------------------------------------------------------------------------
(* _get_batch_shape on its own, on any matrix and vector shape.            *)

Resolve ==
    /\ resolved = NoResolve
    /\ \E bmat \in ResolveMatrices, bvec \in ResolveVectors :
        /\ resolved' = [matrix |-> bmat, vector |-> bvec,
                        ret |-> _get_batch_shape(bmat, bvec)]
        /\ UNCHANGED <<phase, args, self, ret, last, hit, attempts, computes, rpc, rval>>

SpecResolve == Init /\ [][Resolve]_vars

-----------------------------------------------------------------------------
(* Several readers of one instance.  A read of a lazy property is three    *)
(* steps: the attribute lookup, which returns the instance's value when it *)
(* holds one; the wrapped method; and the setattr that stores its value,   *)
(* after which the value is returned.  Each reader reads once.             *)

SharedArgs ==
    {a \in CtorArgs : a[2] \o a[3] \notin {<<m>> : m \in EyeMatrices} /\ Len(a[2] \o a[3]) = 1}

ConstructShared ==
    /\ phase = "new"
    /\ \E a \in SharedArgs : Build(a)

Lookup(r) ==
    /\ phase = "constructed"
    /\ rpc[r].pc = "idle"
    /\ \E name \in {"scale_tril", "covariance_matrix"} :
           IF self[name] # <<>>
           THEN /\ rpc' = [rpc EXCEPT ![r] = [pc |-> "done", name |-> name]]
                /\ rval' = [rval EXCEPT ![r] = Ok(self[name][1].shape, self[name][1].data)]
           ELSE /\ rpc' = [rpc EXCEPT ![r] = [pc |-> "get", name |-> name]]
                /\ rval' = rval
    /\ UNCHANGED <<phase, args, self, ret, last, hit, attempts, computes, resolved>>

Compute(r) ==
    /\ rpc[r].pc = "get"
    /\ LET value == Wrapped(rpc[r].name, self)
       IN  /\ rval' = [rval EXCEPT ![r] = value]
           /\ rpc' = [rpc EXCEPT ![r].pc = IF value.status = "ok" THEN "computed" ELSE "done"]
           /\ computes' = computes + (IF value.status = "ok" THEN 1 ELSE 0)
    /\ attempts' = attempts + 1
    /\ UNCHANGED <<phase, args, self, ret, last, hit, resolved>>

Publish(r) ==
    /\ rpc[r].pc = "computed"
    /\ self' = [self EXCEPT ![rpc[r].name] = <<Tensor(rval[r].shape, rval[r].data)>>]
    /\ rpc' = [rpc EXCEPT ![r].pc = "done"]
    /\ UNCHANGED <<phase, args, ret, last, hit, attempts, computes, rval, resolved>>

NextShared ==
    \/ ConstructShared
    \/ \E r \in Readers : Lookup(r)
    \/ \E r \in Readers : Compute(r)
    \/ \E r \in Readers : Publish(r)

SpecShared == Init /\ [][NextShared]_vars

-----------------------------------------------------------------------------
(* Right-aligned broadcasting, stated from the last dimension backwards.   *)

RECURSIVE Compatible(_, _)
Compatible(a, b) ==
    \/ a = <<>>
    \/ b = <<>>
    \/ /\ (a[Len(a)] = b[Len(b)] \/ a[Len(a)] = 1 \/ b[Len(b)] = 1)
       /\ Compatible(DropLast(a), DropLast(b))

RECURSIVE Broadcast(_, _)
Broadcast(a, b) ==
    IF a = <<>> THEN b
    ELSE IF b = <<>> THEN a
    ELSE Append(Broadcast(DropLast(a), DropLast(b)), Max(a[Len(a)], b[Len(b)]))

\* The matrix argument the constructor was given, when it was given one.
Given == args[Supplied][1]

ExactlyOneGiven == (args.covariance_matrix = <<>>) # (args.scale_tril = <<>>)

-----------------------------------------------------------------------------
(* C1: constructing with both covariance_matrix and scale_tril, with       *)
(* neither, or with a single matrix argument of fewer than 2 dimensions    *)
(* fails with ParameterError, whatever loc and the shapes are: it is       *)
(* never a ShapeError and never a success.                                 *)
C1_ParameterError ==
    (/\ phase # "new"
     /\ \/ ~ExactlyOneGiven
        \/ Len(Given.shape) < 2)
    => /\ phase = "failed"
       /\ ret.status = "ParameterError"

\* Both are given and the covariance's shape cannot broadcast with loc.
C1_Witness ==
    /\ phase = "failed"
    /\ args.covariance_matrix # <<>>
    /\ args.scale_tril # <<>>
    /\ Len(args.covariance_matrix[1].shape) >= 2
    /\ ~Compatible(DropLast(args.covariance_matrix[1].shape), args.loc)
    /\ ret.status = "ParameterError"

(* C2: for a matrix shape of at least 2 dimensions and a vector shape of   *)
(* at least 1 whose matrix_shape[:-1] and vector_shape broadcast,          *)
(* _get_batch_shape returns their right-aligned broadcast without its last *)
(* element; so (5,3,3),(3,) gives (5,), (3,3),(4,3) gives (4,) and         *)
(* (2,1,3,3),(5,3) gives (2,5).                                            *)
C2_ResolveBroadcast ==
    (/\ resolved # NoResolve
     /\ Compatible(DropLast(resolved.matrix), resolved.vector))
    => /\ resolved.ret.status = "ok"
       /\ resolved.ret.shape =
              DropLast(Broadcast(DropLast(resolved.matrix), resolved.vector))
       /\ ((resolved.matrix = <<5, 3, 3>> /\ resolved.vector = <<3>>)
              => resolved.ret.shape = <<5>>)
       /\ ((resolved.matrix = <<3, 3>> /\ resolved.vector = <<4, 3>>)
              => resolved.ret.shape = <<4>>)
       /\ ((resolved.matrix = <<2, 1, 3, 3>> /\ resolved.vector = <<5, 3>>)
              => resolved.ret.shape = <<2, 5>>)

C2_Witness ==
    /\ resolved.matrix = <<2, 1, 3, 3>>
    /\ resolved.vector = <<5, 3>>
    /\ resolved.ret.status = "ok"
    /\ resolved.ret.shape = <<2, 5>>

(* C3: when the two shapes cannot broadcast, as (4,3,3) with (5,3),        *)
(* _get_batch_shape raises ShapeError, returns no batch shape, and the     *)
(* error carries the whole vector shape and the whole matrix shape.        *)
C3_ResolveShapeError ==
    (/\ resolved # NoResolve
     /\ ~Compatible(DropLast(resolved.matrix), resolved.vector))
    => /\ resolved.ret.status = "ShapeError"
       /\ resolved.ret.shape = <<>>
       /\ resolved.ret.msg = <<resolved.vector, resolved.matrix>>

C3_Witness ==
    /\ resolved.matrix = <<4, 3, 3>>
    /\ resolved.vector = <<5, 3>>
    /\ resolved.ret.status = "ShapeError"
    /\ resolved.ret.msg = <<<<5, 3>>, <<4, 3, 3>>>>

(* C4: on every constructed instance, batch_shape is the right-aligned     *)
(* broadcast of the given matrix's shape without its last 2 dimensions     *)
(* with loc's shape without its last dimension, also after any calls of    *)
(* the accessors, rsample, log_prob and entropy.                           *)
C4_BatchShape ==
    phase = "constructed"
    => /\ self._batch_shape # <<>>
       /\ self._batch_shape[1] =
              Broadcast(DropLast2(Given.shape), DropLast(args.loc))

\* The two batch shapes differ and a call has been made since.
C4_Witness ==
    /\ phase = "constructed"
    /\ DropLast2(Given.shape) # <<>>
    /\ DropLast(args.loc) # <<>>
    /\ DropLast2(Given.shape) # DropLast(args.loc)
    /\ last.op = "entropy"
    /\ ret.status = "ok"

-----------------------------------------------------------------------------
(* C5: on one instance, over any calls of the accessors, rsample, log_prob *)
(* and entropy, the attribute the constructor was not given is computed    *)
(* at most once: the access that computes it stores it, and once it is     *)
(* stored no call enters the wrapped method again, the stored value never  *)
(* changes, and its accessor returns the stored value.                     *)
C5_ComputedAtMostOnce ==
    /\ [](computes <= 1)
    /\ [][ /\ (phase = "constructed" /\ self[Derived] # <<>>)
               => (/\ self'[Derived] = self[Derived]
                   /\ attempts' = attempts
                   /\ computes' = computes
                   /\ (last'.op = Derived
                         => ret' = Ok(self[Derived][1].shape, self[Derived][1].data)))
           /\ (phase = "constructed" /\ self[Derived] = <<>> /\ computes' # computes)
               => (/\ self'[Derived] # <<>>
                   /\ (last'.op = Derived
                         => self'[Derived] = <<Tensor(ret'.shape, ret'.data)>>))
         ]_vars

\* A later read of the derived scale_tril was served from the instance.
C5_Witness ==
    /\ phase = "constructed"
    /\ Derived = "scale_tril"
    /\ hit
    /\ last.op = "scale_tril"
    /\ attempts = 1
    /\ computes = 1
    /\ ret = Ok(self.scale_tril[1].shape, self.scale_tril[1].data)

\* The given matrix is n x n for the n of loc.
SquareOfEventSize ==
    /\ Given.shape[Len(Given.shape)] = args.loc[Len(args.loc)]
    /\ Given.shape[Len(Given.shape) - 1] = args.loc[Len(args.loc)]

(* C6: on every constructed instance and for any sample_shape, the array   *)
(* rsample returns has exactly the shape sample_shape + batch_shape +      *)
(* event_shape, also when the matrix and loc have different batch shapes;  *)
(* and rsample does return one whenever the instance has its scale_tril    *)
(* and the matrix is n x n for the n of loc.                               *)
C6_SampleShape ==
    (phase = "constructed" /\ last.op = "rsample")
    => /\ ret.status = "ok"
          => ret.shape = last.arg \o self._batch_shape[1] \o self._event_shape[1]
       /\ (SquareOfEventSize /\ self.scale_tril # <<>>)
          => ret.status = "ok"

\* The matrix has a batch dimension that loc lacks, or the reverse.
C6_Witness ==
    /\ phase = "constructed"
    /\ last.op = "rsample"
    /\ last.arg # <<>>
    /\ DropLast2(Given.shape) # DropLast(args.loc)
    /\ self._batch_shape[1] # <<>>
    /\ ret.status = "ok"
    /\ ret.shape = last.arg \o self._batch_shape[1] \o self._event_shape[1]

(* C7: whenever the instance holds both scale_tril and covariance_matrix,  *)
(* scale_tril @ scale_tril^T is covariance_matrix for every batch item,    *)
(* whichever of the two the constructor was given.                         *)
C7_Consistent ==
    (phase = "constructed" /\ self.scale_tril # <<>> /\ self.covariance_matrix # <<>>)
    => LET L == self.scale_tril[1]
           C == self.covariance_matrix[1]
           n == L.shape[Len(L.shape)]
       IN  /\ L.shape = C.shape
           /\ L.shape[Len(L.shape) - 1] = n
           /\ \A k \in 1..(Numel(L.shape) \div (n * n)) :
                  ViewItems(C, n, n)[k] = MatMulT(ViewItems(L, n, n)[k], n)

\* A symmetric matrix is positive-definite when its leading principal
\* minors are positive.
PositiveDefinite(M, n) ==
    \A k \in 1..n :
        Det([p \in 1..(k * k) |-> At(M, n, ((p - 1) \div k) + 1, ((p - 1) % k) + 1)], k) > 0

\* The constructor was given a covariance_matrix of n x n matrices.
CovarianceGiven ==
    /\ args.scale_tril = <<>>
    /\ args.covariance_matrix # <<>>
    /\ Len(Given.shape) >= 2
    /\ Given.shape[Len(Given.shape)] = Given.shape[Len(Given.shape) - 1]

SomeItemNotPositiveDefinite ==
    LET n == Given.shape[Len(Given.shape)]
    IN  \E k \in 1..(Numel(Given.shape) \div (n * n)) :
            ~PositiveDefinite(ViewItems(Given, n, n)[k], n)

(* C8: on an instance constructed from a covariance_matrix with a batch    *)
(* item that is not positive-definite, every call that reaches scale_tril  *)
(* (its accessor, rsample, entropy, and log_prob once value - loc is       *)
(* formed) raises NotPositiveDefiniteError, none returns a result, and no  *)
(* scale_tril is stored.                                                   *)
C8_NotPositiveDefinite ==
    (phase = "constructed" /\ CovarianceGiven /\ SomeItemNotPositiveDefinite)
    => /\ self.scale_tril = <<>>
       /\ computes = 0
       /\ (last.op \in {"scale_tril", "rsample", "entropy"}
             => ret.status = "NotPositiveDefiniteError")
       /\ (last.op = "log_prob"
             => (\/ ret.status = "NotPositiveDefiniteError"
                 \/ /\ ~Compatible(last.arg, args.loc)
                    /\ ret.status = "RuntimeError"))

\* The first batch item is positive-definite, the second is not, and
\* rsample failed after an earlier failed attempt.
C8_Witness ==
    /\ phase = "constructed"
    /\ CovarianceGiven
    /\ Given.shape = <<2, 2, 2>>
    /\ PositiveDefinite(ViewItems(Given, 2, 2)[1], 2)
    /\ ~PositiveDefinite(ViewItems(Given, 2, 2)[2], 2)
    /\ last.op = "rsample"
    /\ attempts >= 2
    /\ ret.status = "NotPositiveDefiniteError"
    /\ self.scale_tril = <<>>

(* C10: on every constructed instance the given matrix's last two          *)
(* dimensions both equal n = event_shape[0], loc's last dimension.         *)
C10_MatrixMatchesEvent ==
    phase = "constructed"
    => /\ Given.shape[Len(Given.shape)] = self._event_shape[1][1]
       /\ Given.shape[Len(Given.shape) - 1] = self._event_shape[1][1]

-----------------------------------------------------------------------------
\* Reader r has returned a value.
Returned(r) == rpc[r].pc = "done" /\ rval[r].status = "ok"

\* v is what the attribute called name is to hold: the given matrix itself,
\* the lower-triangular factors with a positive diagonal of the given
\* covariance, or the products of the given factors with their transposes.
Derivation(name, v) ==
    LET n == Given.shape[Len(Given.shape)]
        count == Numel(Given.shape) \div (n * n)
    IN  /\ v.shape = Given.shape
        /\ Len(v.data) = Numel(v.shape)
        /\ name = Supplied => v = Given
        /\ (name = Derived /\ name = "scale_tril")
           => \A k \in 1..count :
                 LET L == ViewItems(v, n, n)[k]
                 IN  /\ \A i, j \in 1..n : (j > i => At(L, n, i, j) = 0)
                     /\ \A i \in 1..n : At(L, n, i, i) > 0
                     /\ MatMulT(L, n) = ViewItems(Given, n, n)[k]
        /\ (name = Derived /\ name = "covariance_matrix" /\ SquareOfEventSize)
           => \A k \in 1..count :
                 ViewItems(v, n, n)[k] = MatMulT(ViewItems(Given, n, n)[k], n)

(* C9: with several readers of the lazy attribute of one instance, under   *)
(* every interleaving each reader that returns obtains the same value, the *)
(* derivation of the given matrix; the instance then holds that value;     *)
(* a reader whose computation raises stores nothing; and a value once      *)
(* stored is whole and is never changed by a later, redundant computation. *)
C9_IdempotentPublish ==
    /\ [](\A r \in Readers :
            /\ Returned(r)
               => /\ self[rpc[r].name] = <<Tensor(rval[r].shape, rval[r].data)>>
                  /\ Derivation(rpc[r].name, Tensor(rval[r].shape, rval[r].data))
                  /\ \A q \in Readers :
                        (Returned(q) /\ rpc[q].name = rpc[r].name) => rval[q] = rval[r]
            /\ (rpc[r].pc = "done" /\ rval[r].status # "ok")
               => self[rpc[r].name] = <<>>)
    /\ [][\A name \in {"scale_tril", "covariance_matrix"} :
             self[name] # <<>> => self'[name] = self[name]]_vars

\* Both readers missed, both computed the derived scale_tril, and both
\* stored it.
C9_Witness ==
    /\ phase = "constructed"
    /\ Derived = "scale_tril"
    /\ \A r \in Readers : Returned(r) /\ rpc[r].name = "scale_tril"
    /\ computes = 2
    /\ rval[1] = rval[2]
    /\ self.scale_tril = <<Tensor(rval[1].shape, rval[1].data)>>
    /\ \E i \in 1..Len(rval[1].data) : rval[1].data[i] > 1

====
